---- MODULE Spec2Model ----
(***************************************************************************)
(* TranscriptionFactorTagger.tag (relna/learning/taggers.py): one pass of  *)
(* the tagger over a dataset.  For every document the gene mentions are    *)
(* fetched from GNormPlus, optionally mapped to UniProt ids (Swissprot)    *)
(* and to GO terms (GOTerms), aligned to the parts of the document and     *)
(* stored as entities in the annotations or predicted annotations of the   *)
(* part.                                                                   *)
(***************************************************************************)
EXTENDS Integers, Sequences, FiniteSets, TLC

\* ------------------------------------------------------------------ bounds
MaxDocs == 2
MaxParts == 2
MaxPartLen == 1
MaxGenes == 1

\* ------------------------------------------------------------ input alphabets
Chars == {"A", "C"}
\* the marker 'Conclusion' of line 30, shortened to one character of Chars
Marker == <<"C">>
MentionTexts == {<<"A">>}
GeneIds == {"G1", "G2"}
ProtIds == {"P1", "P2"}
Terms == {"GO_TARGET", "GO_OTHER"}
\* self.transfac_go_terms, read once by __init__
transfac_go_terms == {"GO_TARGET"}

PRO_CLASS_ID == "PRO_CLASS_ID"
MUT_CLASS_ID == "MUT_CLASS_ID"

Conns == {"gnorm", "uprot", "go"}

VARIABLES
    dataset,          \* dataset.documents: sequence of documents, each a sequence of parts
    annotated,        \* parameter annotated of tag
    uniprot,          \* parameter uniprot of tag
    pc,               \* position in tag
    docIdx,           \* index of the document of the outer for loop
    genes,            \* genes of the current document
    genes_mapping,    \* entrez gene id -> list of uniprot ids
    goterms_mapping,  \* uniprot id -> set of GO terms
    partIdx,          \* index of the part of the inner for loop
    last_index,
    part_index,
    acquired,         \* per connection, how many times its with block was entered
    released,         \* per connection, how many times its with block was left
    calls,            \* per external call, how many times it was made in the pass
    exc               \* the call whose exception left tag, or "none"

vars == <<dataset, annotated, uniprot, pc, docIdx, genes, genes_mapping,
          goterms_mapping, partIdx, last_index, part_index, acquired, released,
          calls, exc>>

\* ------------------------------------------------------------------ helpers
SeqsUpTo(S, n) == UNION {[1..k -> S] : k \in 0..n}

PartTexts == SeqsUpTo(Chars, MaxPartLen)

NewPart(t) == [text |-> t, annotations |-> <<>>, predicted_annotations |-> <<>>]

Documents == {[i \in 1..Len(ts) |-> NewPart(ts[i])] : ts \in SeqsUpTo(PartTexts, MaxParts)}

\* datasets of one document, of any parts
AlignDatasets == {<<doc>> : doc \in Documents}

\* datasets of one document of one part
ClassifyDatasets == {<<<<NewPart(t)>>>> : t \in PartTexts}

\* documents of at most one part of at most one character
PassDocuments == {<<>>} \cup {<<NewPart(t)>> : t \in SeqsUpTo(Chars, 1)}

\* datasets of several short documents
PassDatasets == UNION {[1..k -> PassDocuments] : k \in 1..MaxDocs}

\* gene[2] in part.text
IsSubstring(s, t) ==
    \E i \in 0..(Len(t) - Len(s)) : SubSeq(t, i + 1, i + Len(s)) = s

\* part.get_size()
get_size(part) == Len(part.text)

RECURSIVE JoinParts(_, _)
JoinParts(doc, i) ==
    IF i > Len(doc) THEN <<>>
    ELSE IF i = Len(doc) THEN doc[i].text
    ELSE doc[i].text \o <<" ">> \o JoinParts(doc, i + 1)

\* doc.get_text()
get_text(doc) == JoinParts(doc, 1)

\* offsets the recognizer may report: every window of a document and one past
MaxOffset == MaxParts * (MaxPartLen + 1)

\* genes as returned by GNormPlus: gene[0], gene[2], gene[3]
Mentions(offsets, ids) == [offset : offsets, text : MentionTexts, id : ids]

\* mentions of one gene anywhere in a document
AlignGeneLists == SeqsUpTo(Mentions(0..MaxOffset, {"G1"}), MaxGenes)

\* mentions of any gene in a document of one part
ClassifyGeneLists == SeqsUpTo(Mentions(0..MaxPartLen, GeneIds), MaxGenes)

\* at most one mention, at the start of the document or one character on
PassGeneLists == SeqsUpTo(Mentions({0, 1}, {"G1"}), 1)

EmptyMap == [x \in {} |-> {}]

\* gnorm.uniquify_genes(genes)
uniquify_genes(gs) == {gs[i].id : i \in 1..Len(gs)}

\* self.uniquify_proteins(genes_mapping.values())
uniquify_proteins(gm) == UNION {{gm[g][i] : i \in 1..Len(gm[g])} : g \in DOMAIN gm}

\* the lists of uniprot ids a gene id may map to
SecLists ==
    {l \in SeqsUpTo(ProtIds, Cardinality(ProtIds)) :
        Len(l) >= 1 /\ \A i, j \in 1..Len(l) : l[i] = l[j] => i = j}

PassSecLists == {<<"P1">>}

\* the sets of GO terms a uniprot id may resolve to
TermSets == SUBSET Terms

PassTermSets == {{t} : t \in Terms}

\* what uprot.get_uniprotid_for_entrez_geneid(list_of_ids) may return: lists
\* out of SL for some of the ids asked for
UniprotResults(ids, SL) == UNION {[D -> SL] : D \in SUBSET ids}

\* what go.get_goterms_for_uniprot_id(list_of_ids) may return: sets out of TS
\* for some of the ids asked for
GotermsResults(ids, TS) == UNION {[D -> TS] : D \in SUBSET ids}

Zero == [c \in Conns |-> 0]

NoCalls == [fetch_text |-> 0, fetch_pmid |-> 0, normalize |-> 0, resolve |-> 0]

\* ------------------------------------------------------- scoped connections
\* __enter__ of a with block
Enter(acq, c) == [acq EXCEPT ![c] = @ + 1]

\* __exit__ of a with block, run when the block is left normally or by an exception
Exit(rel, c) == [rel EXCEPT ![c] = @ + 1]

\* a variant that releases nothing when an exception leaves the block
ExitOnErrorSkipped(rel, c) == rel

\* the same __exit__, run by an exception that leaves the block
ExitOnError(rel, c) == Exit(rel, c)

IsOpen(c) == acquired[c] > released[c]

\* a variant that normalises whatever the flag
UseUniprotAlways == TRUE

\* line 38: if uniprot
UseUniprot == uniprot

\* ------------------------------------------------------------ entity building
\* the loop of lines 59-64 from the i-th uniprot id on; a KeyError of
\* goterms_mapping[uniprotid] leaves the loop (line 65) with the class set so far
RECURSIVE ClassifyFrom(_, _, _, _)
ClassifyFrom(uniprotids, i, go, cls) ==
    IF i > Len(uniprotids) THEN cls
    ELSE IF uniprotids[i] \notin DOMAIN go THEN cls
    ELSE ClassifyFrom(uniprotids, i + 1, go,
                      IF go[uniprotids[i]] \cap transfac_go_terms # {}
                      THEN MUT_CLASS_ID ELSE cls)

\* lines 57-66: the class of the entity of a gene
class_id(gene, gm, go) ==
    IF gene.id \notin DOMAIN gm THEN PRO_CLASS_ID
    ELSE ClassifyFrom(gm[gene.id], 1, go, PRO_CLASS_ID)

\* a variant that drops the uniprot ids
norm_dict_primary_only(gene, gm) == [EntrezGeneID |-> gene.id]

\* lines 67-73
norm_dict(gene, gm) ==
    IF gene.id \in DOMAIN gm
    THEN [EntrezGeneID |-> gene.id, UniProtID |-> gm[gene.id]]
    ELSE [EntrezGeneID |-> gene.id]

\* a variant that forgets line 51
WindowStartStale(last, next) == last

\* line 51: last_index = part_index
WindowStart(last, next) == next

\* line 52: part_index += part.get_size() + 1
WindowEnd(next, part) == next + get_size(part) + 1

\* a variant whose window is open on the left
InPartLeftOpen(gene, part, last, next) ==
    /\ IsSubstring(gene.text, part.text)
    /\ last < gene.offset
    /\ gene.offset < next

\* line 54
InPart(gene, part, last, next) ==
    /\ IsSubstring(gene.text, part.text)
    /\ last <= gene.offset
    /\ gene.offset < next

\* lines 55-77
MakeEntity(gene, last, gm, go) ==
    [class_id |-> class_id(gene, gm, go),
     offset |-> gene.offset - last,
     text |-> gene.text,
     confidence |-> "0.5",
     normalisation_dict |-> norm_dict(gene, gm),
     normalized_text |-> ""]

\* lines 53-77: the entities of one part, in the order of genes
PartEntities(part, gs, last, next, gm, go) ==
    LET hits == SelectSeq(gs, LAMBDA g : InPart(g, part, last, next))
    IN  [i \in 1..Len(hits) |-> MakeEntity(hits[i], last, gm, go)]

\* a variant that appends to both collections
StoreBoth(part, anns, gold) ==
    [part EXCEPT !.annotations = @ \o anns, !.predicted_annotations = @ \o anns]

\* lines 78-81
Store(part, anns, gold) ==
    IF gold
    THEN [part EXCEPT !.annotations = @ \o anns]
    ELSE [part EXCEPT !.predicted_annotations = @ \o anns]

\* ------------------------------------------------------------------- actions
Init(DS) ==
    /\ dataset \in DS
    /\ annotated = FALSE
    /\ uniprot = FALSE
    /\ pc = "idle"
    /\ docIdx = 0
    /\ genes = <<>>
    /\ genes_mapping = EmptyMap
    /\ goterms_mapping = EmptyMap
    /\ partIdx = 0
    /\ last_index = -1
    /\ part_index = 0
    /\ acquired = Zero
    /\ released = Zero
    /\ calls = NoCalls
    /\ exc = "none"

\* lines 23-28: tag is called and GNormPlus is opened
StartTag(U) ==
    /\ pc = "idle"
    /\ \E a \in BOOLEAN, u \in U : annotated' = a /\ uniprot' = u
    /\ \/ /\ acquired' = Enter(acquired, "gnorm")
          /\ pc' = "doc"
          /\ docIdx' = 1
          /\ UNCHANGED exc
       \/ /\ pc' = "raised"
          /\ exc' = "GNormPlus"
          /\ UNCHANGED <<acquired, docIdx>>
    /\ UNCHANGED <<dataset, genes, genes_mapping, goterms_mapping, partIdx,
                   last_index, part_index, released, calls>>

\* a variant that swallows the exception of the recognizer and goes on without genes
FetchGenesSwallowed(GL) ==
    /\ pc = "doc"
    /\ docIdx <= Len(dataset)
    /\ LET call == IF IsSubstring(Marker, get_text(dataset[docIdx]))
                   THEN "fetch_text" ELSE "fetch_pmid"
       IN  /\ calls' = [calls EXCEPT ![call] = @ + 1]
           /\ \/ /\ \E gs \in GL : genes' = gs
                 /\ UNCHANGED exc
              \/ /\ genes' = <<>>
                 /\ exc' = call
           /\ pc' = "uniprot"
    /\ UNCHANGED <<dataset, annotated, uniprot, docIdx, genes_mapping,
                   goterms_mapping, partIdx, last_index, part_index, acquired,
                   released>>

\* lines 29-33
FetchGenes(GL) ==
    /\ pc = "doc"
    /\ docIdx <= Len(dataset)
    /\ LET call == IF IsSubstring(Marker, get_text(dataset[docIdx]))
                   THEN "fetch_text" ELSE "fetch_pmid"
       IN  /\ calls' = [calls EXCEPT ![call] = @ + 1]
           /\ \/ /\ \E gs \in GL : genes' = gs
                 /\ pc' = "uniprot"
                 /\ UNCHANGED <<released, exc>>
              \/ /\ pc' = "raised"
                 /\ exc' = call
                 /\ released' = ExitOnError(released, "gnorm")
                 /\ UNCHANGED genes
    /\ UNCHANGED <<dataset, annotated, uniprot, docIdx, genes_mapping,
                   goterms_mapping, partIdx, last_index, part_index, acquired>>

\* lines 37-41
Normalize(SL) ==
    /\ pc = "uniprot"
    /\ \/ /\ ~UseUniprot
          /\ genes_mapping' = EmptyMap
          /\ pc' = "goterms"
          /\ UNCHANGED <<acquired, released, calls, exc>>
       \/ /\ UseUniprot
          /\ acquired' = Enter(acquired, "uprot")
          /\ released' = Exit(released, "uprot")
          /\ calls' = [calls EXCEPT !.normalize = @ + 1]
          /\ \E m \in UniprotResults(uniquify_genes(genes), SL) : genes_mapping' = m
          /\ pc' = "goterms"
          /\ UNCHANGED exc
       \/ /\ UseUniprot
          /\ genes_mapping' = EmptyMap
          /\ pc' = "raised"
          /\ \/ /\ exc' = "Swissprot"
                /\ released' = ExitOnError(released, "gnorm")
                /\ UNCHANGED <<acquired, calls>>
             \/ /\ exc' = "normalize"
                /\ acquired' = Enter(acquired, "uprot")
                /\ released' = ExitOnError(ExitOnError(released, "uprot"), "gnorm")
                /\ calls' = [calls EXCEPT !.normalize = @ + 1]
    /\ UNCHANGED <<dataset, annotated, uniprot, docIdx, genes, goterms_mapping,
                   partIdx, last_index, part_index>>

\* lines 43-49
Resolve(TS) ==
    /\ pc = "goterms"
    /\ \/ /\ acquired' = Enter(acquired, "go")
          /\ released' = Exit(released, "go")
          /\ calls' = [calls EXCEPT !.resolve = @ + 1]
          /\ \E m \in GotermsResults(uniquify_proteins(genes_mapping), TS) :
                goterms_mapping' = m
          /\ pc' = "parts"
          /\ partIdx' = 1
          /\ last_index' = -1
          /\ part_index' = 0
          /\ UNCHANGED exc
       \/ /\ goterms_mapping' = EmptyMap
          /\ pc' = "raised"
          /\ UNCHANGED <<partIdx, last_index, part_index>>
          /\ \/ /\ exc' = "GOTerms"
                /\ released' = ExitOnError(released, "gnorm")
                /\ UNCHANGED <<acquired, calls>>
             \/ /\ exc' = "resolve"
                /\ acquired' = Enter(acquired, "go")
                /\ released' = ExitOnError(ExitOnError(released, "go"), "gnorm")
                /\ calls' = [calls EXCEPT !.resolve = @ + 1]
    /\ UNCHANGED <<dataset, annotated, uniprot, docIdx, genes, genes_mapping>>

\* lines 50-81: one round of the loop over the parts of the document
ProcessPart ==
    /\ pc = "parts"
    /\ partIdx <= Len(dataset[docIdx])
    /\ LET part == dataset[docIdx][partIdx]
           last == WindowStart(last_index, part_index)
           next == WindowEnd(part_index, part)
           anns == PartEntities(part, genes, last, next, genes_mapping,
                                goterms_mapping)
       IN  /\ last_index' = last
           /\ part_index' = next
           /\ dataset' = [dataset EXCEPT ![docIdx][partIdx] = Store(@, anns, annotated)]
    /\ partIdx' = partIdx + 1
    /\ UNCHANGED <<annotated, uniprot, pc, docIdx, genes, genes_mapping,
                   goterms_mapping, acquired, released, calls, exc>>

\* a variant that opens GNormPlus anew for every document
NextDocumentReopen ==
    /\ pc = "parts"
    /\ partIdx > Len(dataset[docIdx])
    /\ docIdx' = docIdx + 1
    /\ pc' = "doc"
    /\ genes' = <<>>
    /\ genes_mapping' = EmptyMap
    /\ goterms_mapping' = EmptyMap
    /\ partIdx' = 0
    /\ last_index' = -1
    /\ part_index' = 0
    /\ released' = Exit(released, "gnorm")
    /\ acquired' = Enter(acquired, "gnorm")
    /\ UNCHANGED <<dataset, annotated, uniprot, calls, exc>>

\* line 29: the loop over the parts is over, on to the next document; genes and
\* the two mappings are not read again before lines 31-46 assign them
NextDocument ==
    /\ pc = "parts"
    /\ partIdx > Len(dataset[docIdx])
    /\ docIdx' = docIdx + 1
    /\ pc' = "doc"
    /\ genes' = <<>>
    /\ genes_mapping' = EmptyMap
    /\ goterms_mapping' = EmptyMap
    /\ partIdx' = 0
    /\ last_index' = -1
    /\ part_index' = 0
    /\ UNCHANGED <<dataset, annotated, uniprot, acquired, released, calls, exc>>

\* line 28: the loop over the documents is over and the with block is left
Return ==
    /\ pc = "doc"
    /\ docIdx > Len(dataset)
    /\ released' = Exit(released, "gnorm")
    /\ pc' = "done"
    /\ UNCHANGED <<dataset, annotated, uniprot, docIdx, genes, genes_mapping,
                   goterms_mapping, partIdx, last_index, part_index, acquired,
                   calls, exc>>

\* offset alignment: one document of any parts, mentions anywhere, no
\* uniprot normalisation
NextAlign ==
    \/ StartTag({FALSE})
    \/ FetchGenes(AlignGeneLists)
    \/ Normalize(SecLists)
    \/ Resolve(TermSets)
    \/ ProcessPart
    \/ NextDocument
    \/ Return

SpecAlign == Init(AlignDatasets) /\ [][NextAlign]_vars

\* classification and identifier bundles: one document of one part, every
\* outcome of the two lookups
NextClassify ==
    \/ StartTag(BOOLEAN)
    \/ FetchGenes(ClassifyGeneLists)
    \/ Normalize(SecLists)
    \/ Resolve(TermSets)
    \/ ProcessPart
    \/ NextDocument
    \/ Return

SpecClassify == Init(ClassifyDatasets) /\ [][NextClassify]_vars

\* the pass over a dataset: several short documents, connections, exceptions
NextPass ==
    \/ StartTag(BOOLEAN)
    \/ FetchGenes(PassGeneLists)
    \/ Normalize(PassSecLists)
    \/ Resolve(PassTermSets)
    \/ ProcessPart
    \/ NextDocument
    \/ Return

SpecPass == Init(PassDatasets) /\ [][NextPass]_vars

\* ------------------------------------------------------- notions of the claims
\* the collection the run writes to, and the other one
Written(part) == IF annotated THEN part.annotations ELSE part.predicted_annotations

Untouched(part) == IF annotated THEN part.predicted_annotations ELSE part.annotations

RECURSIVE SumSizes(_, _)
SumSizes(doc, n) == IF n = 0 THEN 0 ELSE Len(doc[n].text) + SumSizes(doc, n - 1)

\* cumulative_start of the i-th part (i from 1): the sizes of the parts before it
\* and one separator for each of them
cumulative_start(doc, i) == SumSizes(doc, i - 1) + (i - 1)

InWindow(g, doc, i) ==
    /\ cumulative_start(doc, i) <= g
    /\ g < cumulative_start(doc, i) + Len(doc[i].text) + 1

\* the document of the running loop, and its parts the loop has finished
InParts == pc = "parts"

CurDoc == dataset[docIdx]

DoneParts == 1..(partIdx - 1)

GeneSet == {genes[i] : i \in 1..Len(genes)}

\* e was built from mention g and sits in part i of the current document
FromMention(e, g, i) ==
    /\ e.text = g.text
    /\ e.normalisation_dict.EntrezGeneID = g.id
    /\ e.offset = g.offset - cumulative_start(CurDoc, i)

StoredIn(g, i) ==
    \E k \in 1..Len(Written(CurDoc[i])) : FromMention(Written(CurDoc[i])[k], g, i)

EntitiesOf(part) == part.annotations \o part.predicted_annotations

\* C1 as stated: a mention whose offset lies in the window of part i is stored
\* in part i, at offset g - cumulative_start(i), whatever its text
C1_AsStated ==
    InParts =>
        \A i \in DoneParts : \A g \in GeneSet :
            InWindow(g.offset, CurDoc, i) => StoredIn(g, i)

\* C1 (amended): a mention whose offset lies in the window of part i and whose
\* text occurs in the text of part i is stored in part i at offset
\* g - cumulative_start(i), and in no other part; a mention at exactly
\* cumulative_start(i) belongs to part i
C1_WindowAlignment ==
    InParts =>
        \A i \in DoneParts : \A g \in GeneSet :
            (InWindow(g.offset, CurDoc, i) /\ IsSubstring(g.text, CurDoc[i].text))
                => /\ StoredIn(g, i)
                   /\ \A j \in DoneParts \ {i} : ~StoredIn(g, j)

\* a mention at the very start of the second part's window was stored there
C1_Witness ==
    /\ InParts
    /\ partIdx = 3
    /\ \E g \in GeneSet :
        /\ g.offset = cumulative_start(CurDoc, 2)
        /\ g.offset > 0
        /\ StoredIn(g, 2)
        /\ Len(Written(CurDoc[1])) = 0

\* C2: every stored entity has 0 <= part_offset < length of its part
C2_OffsetInsidePart ==
    \A d \in 1..Len(dataset) : \A i \in 1..Len(dataset[d]) :
        \A k \in 1..Len(EntitiesOf(dataset[d][i])) :
            /\ EntitiesOf(dataset[d][i])[k].offset >= 0
            /\ EntitiesOf(dataset[d][i])[k].offset < Len(dataset[d][i].text)

\* the uniprot ids mapped from a primary id, none when it has no entry
SecondaryIds(p) ==
    IF p \in DOMAIN genes_mapping
    THEN {genes_mapping[p][i] : i \in 1..Len(genes_mapping[p])}
    ELSE {}

\* the union of the terms of the secondary ids of p, an id without entry giving none
UnionTerms(p) ==
    UNION {IF u \in DOMAIN goterms_mapping THEN goterms_mapping[u] ELSE {}
           : u \in SecondaryIds(p)}

\* C3: an entity is of the special class exactly when the union of the GO terms
\* of all its secondary ids meets the target terms
C3_ClassIffUnionMeetsTarget ==
    InParts =>
        \A i \in DoneParts : \A k \in 1..Len(Written(CurDoc[i])) :
            LET e == Written(CurDoc[i])[k]
            IN  (e.class_id = MUT_CLASS_ID)
                    <=> (UnionTerms(e.normalisation_dict.EntrezGeneID)
                            \cap transfac_go_terms # {})

\* C4 as stated: without uniprot normalisation neither the normalizer nor the
\* resolver is called
C4_AsStated ==
    (pc # "idle" /\ ~uniprot) => (calls.normalize = 0 /\ calls.resolve = 0)

\* C4 (amended): without uniprot normalisation the normalizer is never called
\* and its connection never opened, while the resolver is still called once for
\* every document, with the empty set of ids
C4_NormalizerSkippedResolverCalled ==
    (pc # "idle" /\ ~uniprot) =>
        /\ calls.normalize = 0
        /\ acquired["uprot"] = 0
        /\ uniquify_proteins(genes_mapping) = {}
        /\ DOMAIN goterms_mapping = {}
        /\ (pc = "parts" => calls.resolve = docIdx)
        /\ (pc = "done" => calls.resolve = Len(dataset))

C4_Witness ==
    /\ pc = "done"
    /\ ~uniprot
    /\ calls.resolve = 2
    /\ calls.normalize = 0

\* C5 as stated: each of the three connections is acquired at most once in a pass
C5_AsStated ==
    \A c \in Conns : acquired[c] <= 1

Running == pc \in {"doc", "uniprot", "goterms", "parts"}

\* C5 (amended): the recognizer connection is acquired once for the pass and
\* stays open over all documents; the normalizer connection (when uniprot is
\* set) and the resolver connection are acquired and released once for every
\* document, never more often
C5_ConnectionScopes ==
    /\ acquired["gnorm"] <= 1
    /\ (Running => IsOpen("gnorm"))
    /\ \A c \in {"uprot", "go"} : ~IsOpen(c) /\ acquired[c] <= docIdx
    /\ (pc = "parts" => acquired["go"] = docIdx)
    /\ (pc = "parts" => acquired["uprot"] = IF uniprot THEN docIdx ELSE 0)
    /\ (pc = "done" => acquired["go"] = Len(dataset))

C5_Witness ==
    /\ pc = "done"
    /\ uniprot
    /\ acquired["gnorm"] = 1
    /\ acquired["uprot"] = 2
    /\ acquired["go"] = 2

\* C6: when tag has returned or was left by an exception, every connection that
\* was acquired has been released
C6_AllReleasedOnExit ==
    (pc \in {"done", "raised"}) => \A c \in Conns : released[c] = acquired[c]

C6_Witness ==
    /\ pc = "raised"
    /\ exc = "resolve"
    /\ docIdx = 2
    /\ acquired = [gnorm |-> 1, uprot |-> 2, go |-> 2]

NoEntitiesFrom(d) ==
    \A e \in {x \in 1..Len(dataset) : x >= d} : \A i \in 1..Len(dataset[e]) :
        Len(EntitiesOf(dataset[e][i])) = 0

\* C7: a step in which an external call raises leaves tag (nothing runs after
\* it), appends nothing, and finds the document being processed and all later
\* ones without entities; the entities of the earlier documents stay
C7_ExceptionPropagates ==
    [][/\ pc # "raised"
       /\ (exc' # "none") =>
            (pc' = "raised" /\ dataset' = dataset /\ NoEntitiesFrom(docIdx))]_vars

C7_Witness ==
    /\ pc = "raised"
    /\ docIdx = 2
    /\ \E i \in 1..Len(dataset[1]) : Len(EntitiesOf(dataset[1][i])) > 0

\* the bundle the claim gives the entity of a mention with primary id p
ExpectedBundle(p) ==
    IF p \in DOMAIN genes_mapping
    THEN [EntrezGeneID |-> p, UniProtID |-> genes_mapping[p]]
    ELSE [EntrezGeneID |-> p]

\* C8: the bundle of an entity always carries the primary id; it carries the
\* secondary ids exactly when genes_mapping has an entry for the primary id, and
\* then all of them; without an entry the entity is still created, with the
\* default class
C8_IdentifierBundle ==
    InParts =>
        \A i \in DoneParts :
            /\ \A k \in 1..Len(Written(CurDoc[i])) :
                LET e == Written(CurDoc[i])[k]
                    nd == e.normalisation_dict
                IN  /\ "EntrezGeneID" \in DOMAIN nd
                    /\ \E g \in GeneSet : g.id = nd.EntrezGeneID
                    /\ ("UniProtID" \in DOMAIN nd) <=> (nd.EntrezGeneID \in DOMAIN genes_mapping)
                    /\ nd = ExpectedBundle(nd.EntrezGeneID)
                    /\ ("UniProtID" \notin DOMAIN nd) => e.class_id = PRO_CLASS_ID
            /\ \A g \in GeneSet :
                (InWindow(g.offset, CurDoc, i) /\ IsSubstring(g.text, CurDoc[i].text))
                    => \E k \in 1..Len(Written(CurDoc[i])) :
                          /\ FromMention(Written(CurDoc[i])[k], g, i)
                          /\ Written(CurDoc[i])[k].normalisation_dict = ExpectedBundle(g.id)

\* an entity with two secondary ids of which the resolver knows none, and one
\* without secondary ids under uniprot normalisation
C8_Witness ==
    /\ InParts
    /\ uniprot
    /\ \E i \in DoneParts : \E k \in 1..Len(Written(CurDoc[i])) :
        LET nd == Written(CurDoc[i])[k].normalisation_dict
        IN  /\ "UniProtID" \in DOMAIN nd
            /\ Len(nd.UniProtID) = 2
            /\ DOMAIN goterms_mapping = {}

C8_WitnessNoEntry ==
    /\ InParts
    /\ uniprot
    /\ \E i \in DoneParts : \E k \in 1..Len(Written(CurDoc[i])) :
        "UniProtID" \notin DOMAIN Written(CurDoc[i])[k].normalisation_dict

\* the mentions of the current document that line 54 accepts for part i
Hits(i) ==
    {n \in 1..Len(genes) :
        InWindow(genes[n].offset, CurDoc, i) /\ IsSubstring(genes[n].text, CurDoc[i].text)}

\* C9: the run appends every entity to the collection its flag names, one entity
\* for each accepted mention, and leaves the other collection of every part as
\* it was
C9_OneCollection ==
    /\ \A d \in 1..Len(dataset) : \A i \in 1..Len(dataset[d]) :
            Len(Untouched(dataset[d][i])) = 0
    /\ InParts =>
        \A i \in DoneParts : Len(Written(CurDoc[i])) = Cardinality(Hits(i))

C9_Witness ==
    /\ pc = "done"
    /\ annotated
    /\ \E d \in 1..Len(dataset) : \E i \in 1..Len(dataset[d]) :
        Len(dataset[d][i].annotations) > 0

C9_WitnessPredicted ==
    /\ pc = "done"
    /\ ~annotated
    /\ \E d \in 1..Len(dataset) : \E i \in 1..Len(dataset[d]) :
        Len(dataset[d][i].predicted_annotations) > 0

RECURSIVE CountEntities(_, _)
CountEntities(doc, n) ==
    IF n = 0 THEN 0 ELSE Len(EntitiesOf(doc[n])) + CountEntities(doc, n - 1)

InNoWindow(g) == \A i \in 1..Len(CurDoc) : ~InWindow(g.offset, CurDoc, i)

\* the mentions of the current document whose offset lies in some window
Windowed == {n \in 1..Len(genes) : ~InNoWindow(genes[n])}

\* C10: the mentions of a document give at most one entity each over all its
\* parts; a mention in no window and every mention of a document without parts
\* give none, and no exception is raised
C10_AtMostOneEntityPerMention ==
    InParts =>
        /\ exc = "none"
        /\ CountEntities(CurDoc, Len(CurDoc)) <= Cardinality(Windowed)
        /\ \A g \in GeneSet :
            /\ Cardinality({i \in DoneParts : StoredIn(g, i)}) <= 1
            /\ InNoWindow(g) => \A i \in DoneParts : ~StoredIn(g, i)

\* a mention beyond every window of a document with two parts, after both parts
C10_Witness ==
    /\ InParts
    /\ Len(CurDoc) = 2
    /\ partIdx = 3
    /\ \E g \in GeneSet : InNoWindow(g)

====
